---- MODULE Spec2Model ----
(***************************************************************************)
(* A model of respy.units.quantity.Quantity: a numpy array subclass that   *)
(* carries a unit, a dimension tag, a name and a constant flag.            *)
(*                                                                         *)
(* The heap of Quantity objects is the sequence objs; array storage is the *)
(* sequence bufs, and an array is a window (buf, off, shape) onto one      *)
(* buffer, so that views that share storage are visible as such.           *)
(* Numbers are exact rationals <<n, d>> (d > 0, lowest terms): a float64   *)
(* holds them without the rounding error, an integer dtype truncates.      *)
(***************************************************************************)
EXTENDS Integers, Sequences, FiniteSets, TLC

\* ------------------------------------------------------------------ bounds
MaxObjs == 2
IterObjs == 5
IterIters == 2
TripObjs == 3
MaxWrites == 1
MaxAbs == 1000
MaxExp == 2

\* ------------------------------------------------------------------ numbers
Abs(n) == IF n < 0 THEN -n ELSE n

RECURSIVE GCD(_, _)
GCD(a, b) == IF b = 0 THEN a ELSE GCD(b, a % b)

Rat(n, d) ==
    LET s == IF d < 0 THEN -1 ELSE 1
        g == GCD(Abs(n), Abs(d))
    IN  IF n = 0 THEN <<0, 1>> ELSE <<(s * n) \div g, (s * d) \div g>>

I(n) == <<n, 1>>
RAdd(a, b) == Rat(a[1] * b[2] + b[1] * a[2], a[2] * b[2])
RNeg(a) == <<-a[1], a[2]>>
RSub(a, b) == RAdd(a, RNeg(b))
RMul(a, b) == Rat(a[1] * b[1], a[2] * b[2])
RDiv(a, b) == Rat(a[1] * b[2], a[2] * b[1])
RAbs(a) == <<Abs(a[1]), a[2]>>
RFloor(a) == a[1] \div a[2]
RTrunc(a) == IF a[1] >= 0 THEN a[1] \div a[2] ELSE -((-a[1]) \div a[2])
RFloorDiv(a, b) == I(RFloor(RDiv(a, b)))
RMod(a, b) == RSub(a, RMul(RFloorDiv(a, b), b))
IsIntegral(a) == a[2] = 1

RECURSIVE RPowNat(_, _)
RPowNat(a, k) == IF k = 0 THEN I(1) ELSE RMul(a, RPowNat(a, k - 1))

\* the result of an operand pair the model does not compute
Undefined == <<0, 0>>

InRange(a) == a # Undefined /\ Abs(a[1]) <= MaxAbs /\ a[2] <= MaxAbs

\* ------------------------------------------------------------------ dtypes
\* numpy dtypes that occur: python ints arrive as int64, an explicit
\* dtype=int32 stays int32, everything else is float64.
IsIntDtype(dt) == dt \in {"int32", "int64"}

Cast(x, dt) == IF IsIntDtype(dt) /\ x # Undefined THEN I(RTrunc(x)) ELSE x

CastSeq(data, dt) == [i \in 1..Len(data) |-> Cast(data[i], dt)]

\* dtype of a numpy binary ufunc on two arrays (no value-based casting: both
\* operands are arrays by the time they are combined)
Promote(d1, d2) ==
    IF d1 = "float64" \/ d2 = "float64" THEN "float64"
    ELSE IF d1 = "int64" \/ d2 = "int64" THEN "int64"
    ELSE "int32"

\* ------------------------------------------------------------------ units
BaseUnits == {"meter", "centimeter", "second"}

NoExp == [b \in BaseUnits |-> 0]

\* Python None, the sentinels respy.units.util.Zero and One, a unit
\* expression (a product of powers of named units), a unit string
None == [kind |-> "None", exp |-> NoExp, str |-> ""]
Zero == [kind |-> "Zero", exp |-> NoExp, str |-> ""]
One == [kind |-> "One", exp |-> NoExp, str |-> ""]
UnitExpr(e) == IF e = NoExp THEN One ELSE [kind |-> "unit", exp |-> e, str |-> ""]
Atom(b) == UnitExpr([x \in BaseUnits |-> IF x = b THEN 1 ELSE 0])
UnitStr(s) == [kind |-> "str", exp |-> NoExp, str |-> s]

\* isinstance(unit, type(One))
IsOneType(u) == u.kind = "One"

\* get_unit: resolves a unit or a unit string, raises UnitError otherwise
Resolvable(u) == u.kind # "str" \/ u.str \in BaseUnits
get_unit(u) == IF u.kind = "str" THEN Atom(u.str) ELSE u

\* unit.dimension exists on a named unit only: a product, a power and the
\* sentinels raise AttributeError
HasDimension(u) ==
    /\ u.kind = "unit"
    /\ \E b \in BaseUnits : u = Atom(b)

UnitName(u) == CHOOSE b \in BaseUnits : u = Atom(b)

DimensionOfName(b) == IF b = "second" THEN "time" ELSE "length"

\* unit.dimension.name
DimensionName(u) == DimensionOfName(UnitName(u))

\* util.Units[dimension][unit].scale_factor
scale_factor(b) == IF b = "centimeter" THEN <<1, 100>> ELSE <<1, 1>>

\* ------------------------------------------------------------------ arrays
RECURSIVE Size(_)
Size(shape) == IF shape = <<>> THEN 1 ELSE Head(shape) * Size(Tail(shape))

\* An array value: its dtype, shape and elements (row-major), and the
\* buffer window it occupies (buf = 0: not stored yet, a fresh result).
Fresh(dt, shape, data) ==
    [buf |-> 0, off |-> 0, dtype |-> dt, shape |-> shape, data |-> data]

\* the window (buf, off, shape) read from storage
Window(bs, buf, off, shape) ==
    [buf |-> buf, off |-> off, dtype |-> bs[buf].dtype, shape |-> shape,
     data |-> [i \in 1..Size(shape) |-> bs[buf].data[off + i]]]

NoRef == [buf |-> 0, off |-> 0, shape |-> <<>>]
Ref(a) == [buf |-> a.buf, off |-> a.off, shape |-> a.shape]
Deref(bs, r) == Window(bs, r.buf, r.off, r.shape)

\* np.array(value, dtype=dtype, copy=False): the same storage when the dtype
\* already fits, a converted copy otherwise
np_array_nocopy(a, dt) ==
    IF a.dtype = dt THEN a ELSE Fresh(dt, a.shape, CastSeq(a.data, dt))

\* np.atleast_1d
\* np.atleast_1d left out: a scalar stays zero-dimensional
atleast_1d_off(a) == a

atleast_1d(a) == IF a.shape = <<>> THEN [a EXCEPT !.shape = <<1>>] ELSE a

\* storing an array: a fresh result gets a buffer of its own
Store(bs, a) ==
    IF a.buf # 0 THEN [bufs |-> bs, ref |-> Ref(a)]
    ELSE [bufs |-> Append(bs, [dtype |-> a.dtype, data |-> a.data]),
          ref |-> [buf |-> Len(bs) + 1, off |-> 0, shape |-> a.shape]]

\* ------------------------------------------------------------------ state
VARIABLES
    bufs,    \* array storage: a sequence of [dtype, data]
    objs,    \* the Quantity objects created so far, in creation order
    origin,  \* for each object, the object it was made from and the call
    iters,   \* the generators returned by __iter__
    writes,  \* how many calls have changed an existing object
    last,    \* the most recent call and what it returned or raised
    cap      \* how many objects and generators the run is followed up to

vars == <<bufs, objs, origin, iters, writes, last, cap>>

Ids == 1..Len(objs)

\* what a call gave back: kind is "Quantity" (res is the new object),
\* "raw" (a plain array, its elements in raw), "None", "iterator" or
\* "raise" (err names the exception)
Outcome(op, self, other, kind, res, err, raw) ==
    [op |-> op, self |-> self, other |-> other, kind |-> kind, res |-> res,
     err |-> err, raw |-> raw]

Returned(op, self, other, res) == Outcome(op, self, other, "Quantity", res, "", <<>>)
Raised(op, self, other, err) == Outcome(op, self, other, "raise", 0, err, <<>>)

Origin(parent, via) == [parent |-> parent, via |-> via]

\* A call that raised or that only computed a plain result has left every
\* object as it was: what can follow it is what can follow the state before
\* it, and is explored from there. The run is followed further only after a
\* call that created or changed something.
Open == last.kind \notin {"raise", "raw"}

\* room for one more object
Room == Len(objs) < cap.objs

\* the elements of the value attribute and of the array itself
Values(o) == Deref(bufs, o.value).data
Contents(o) == Deref(bufs, o.base).data

\* ------------------------------------------------------------------ private methods
NoDtype == ""

\* set_name that stores nothing
set_name_kept(o, name) == o

set_name(o, name) == [o EXCEPT !.name = name]

\* Quantity.__set_attributes
set_attributes(o, unit, value, dtype, copy, constant, ndmin) ==
    LET u == IF unit = None \/ IsOneType(unit) THEN None ELSE get_unit(unit)
    IN  [o EXCEPT !.unit = u,
                  !.value = value,
                  !.dtype = dtype,
                  !.copy = copy,
                  !.constant = constant,
                  !.ndmin = ndmin,
                  !.dimension = IF HasDimension(u) THEN DimensionName(u) ELSE "None"]

\* value.view(quantity_subclass): __array_finalize__ finds no attribute on a
\* plain array, so every attribute starts as None
BlankView(ref) ==
    [base |-> ref, value |-> NoRef, unit |-> None, dimension |-> "None",
     name |-> "None", constant |-> FALSE, dtype |-> NoDtype, copy |-> FALSE,
     ndmin |-> 0]

\* __create_new_instance without its last line, view.set_name(name)
create_new_instance_unnamed(bs, self, value, unit, name, dtype) ==
    LET u == IF unit = None \/ IsOneType(unit) THEN None ELSE unit
        dt == IF dtype = NoDtype THEN self.dtype ELSE dtype
        v == atleast_1d(np_array_nocopy(value, dt))
        st == Store(bs, v)
        view == BlankView(st.ref)
    IN  [bufs |-> st.bufs,
         obj |-> set_attributes(view, u, st.ref, dt, self.copy, self.constant,
                                self.ndmin)]

\* Quantity.__create_new_instance: the storage after it and the new object
create_new_instance(bs, self, value, unit, name, dtype) ==
    LET u == IF unit = None \/ IsOneType(unit) THEN None ELSE unit
        dt == IF dtype = NoDtype THEN self.dtype ELSE dtype
        v == atleast_1d(np_array_nocopy(value, dt))
        st == Store(bs, v)
        view == BlankView(st.ref)
    IN  [bufs |-> st.bufs,
         obj |-> set_name(set_attributes(view, u, st.ref, dt, self.copy,
                                         self.constant, self.ndmin), name)]

\* ------------------------------------------------------------------ construction
\* np.array(value, dtype=dtype, ndmin=ndmin) of a python number or nested list
PadShape(shape, ndmin) ==
    IF Len(shape) >= ndmin THEN shape
    ELSE [i \in 1..ndmin |-> IF i <= ndmin - Len(shape) THEN 1
                             ELSE shape[i - (ndmin - Len(shape))]]

np_array_new(value, dtype, ndmin) ==
    LET dt == IF dtype = NoDtype THEN "int64" ELSE dtype
    IN  Fresh(dt, PadShape(value.shape, ndmin), CastSeq(value.data, dt))

\* the arguments Quantity(...) is called with
Arg(shape, data, unit, dtype, name, constant, ndmin) ==
    [shape |-> shape, data |-> data, unit |-> unit, dtype |-> dtype,
     name |-> name, constant |-> constant, copy |-> TRUE, ndmin |-> ndmin]

NewArgs ==
    { Arg(<<>>, <<I(5)>>, UnitStr("meter"), NoDtype, "None", FALSE, 0),
      Arg(<<2>>, <<I(1), I(2)>>, UnitStr("centimeter"), NoDtype, "a", TRUE, 0),
      Arg(<<2>>, <<I(3), I(250)>>, Atom("centimeter"), "int32", "None", FALSE, 0),
      Arg(<<2, 2>>, <<I(1), I(2), I(3), I(4)>>, UnitStr("second"), NoDtype, "None", FALSE, 0),
      Arg(<<>>, <<I(7)>>, None, NoDtype, "None", TRUE, 2),
      Arg(<<>>, <<I(2)>>, One, NoDtype, "b", FALSE, 0),
      Arg(<<>>, <<I(1)>>, UnitStr("parsec"), NoDtype, "None", FALSE, 0) }

\* Quantity.__new__: the storage after it and the new object
Construct(bs, arg) ==
    LET x0 == atleast_1d(np_array_new(arg, arg.dtype, arg.ndmin))
        x == IF x0.dtype = "int64"
             THEN Fresh("float64", x0.shape, CastSeq(x0.data, "float64"))
             ELSE x0
        st == Store(bs, x)
        unit == IF arg.unit = None THEN Zero ELSE get_unit(arg.unit)
    IN  [bufs |-> st.bufs,
         obj |-> [base |-> st.ref,
                  value |-> st.ref,
                  unit |-> unit,
                  dimension |-> IF arg.unit = None THEN "Zero"
                                ELSE IF HasDimension(unit) THEN DimensionName(unit)
                                ELSE "Zero",
                  name |-> IF arg.name = "None" THEN "" ELSE arg.name,
                  constant |-> arg.constant,
                  dtype |-> x.dtype,
                  copy |-> arg.copy,
                  ndmin |-> arg.ndmin]]

\* Quantity(...)
New(arg) ==
    /\ Open
    /\ IF arg.unit # None /\ ~Resolvable(arg.unit)
       THEN /\ last' = Raised("new", 0, 0, "UnitError")
            /\ UNCHANGED <<bufs, objs, origin, iters, writes, cap>>
       ELSE LET new == Construct(bufs, arg)
            IN  /\ Room
                /\ bufs' = new.bufs
                /\ objs' = Append(objs, new.obj)
                /\ origin' = Append(origin, Origin(0, "new"))
                /\ last' = Returned("new", 0, 0, Len(objs) + 1)
                /\ UNCHANGED <<iters, writes, cap>>

\* ------------------------------------------------------------------ indexing
\* self.value[item] for an integer or a slice lo:hi on the first axis
Index(i) == [slice |-> FALSE, lo |-> i, hi |-> i + 1]
Slice(lo, hi) == [slice |-> TRUE, lo |-> lo, hi |-> hi]

RowSize(shape) == Size(Tail(shape))

ndarray_getitem(bs, ref, item) ==
    LET rest == Tail(ref.shape)
        off == ref.off + item.lo * RowSize(ref.shape)
    IN  IF item.slice THEN Window(bs, ref.buf, off, <<item.hi - item.lo>> \o rest)
        ELSE IF rest # <<>> THEN Window(bs, ref.buf, off, rest)
        ELSE \* an element of a one-dimensional array is a scalar, not a view
             Fresh(bs[ref.buf].dtype, <<>>, <<bs[ref.buf].data[off + 1]>>)

Items(n) ==
    {Index(i) : i \in 0..n} \cup {Slice(lo, hi) : lo \in 0..(n - 1), hi \in 1..n}

\* Quantity.__getitem__
GetItem(q, item) ==
    LET self == objs[q]
        n == Head(self.value.shape)
    IN  /\ Open
        /\ item \in Items(n)
        /\ item.lo < item.hi
        /\ IF item.lo >= n
           THEN /\ last' = Raised("getitem", q, 0, "IndexError")
                /\ UNCHANGED <<bufs, objs, origin, iters, writes, cap>>
           ELSE LET value == ndarray_getitem(bufs, self.value, item)
                    new == create_new_instance(bufs, self, value, self.unit,
                                               self.name, NoDtype)
                IN  /\ Room
                    /\ bufs' = new.bufs
                    /\ objs' = Append(objs, new.obj)
                    /\ origin' = Append(origin, Origin(q, "getitem"))
                    /\ last' = Returned("getitem", q, 0, Len(objs) + 1)
                    /\ UNCHANGED <<iters, writes, cap>>

\* ------------------------------------------------------------------ operator tables
\* the aliases of the class body: __rmul__ = __mul__, __iadd__ = __add__, ...
Alias(op) ==
    CASE op \in {"rmul", "imul"} -> "mul"
      [] op \in {"radd", "iadd"} -> "add"
      [] op \in {"div", "idiv", "itruediv"} -> "truediv"
      [] op = "rdiv" -> "rtruediv"
      [] op = "isub" -> "sub"
      [] op = "ifloordiv" -> "floordiv"
      [] op = "imod" -> "mod"
      [] op = "ipow" -> "pow"
      [] op = "ilshift" -> "lshift"
      [] op = "irshift" -> "rshift"
      [] op = "iand" -> "and"
      [] op = "ior" -> "or"
      [] op = "ixor" -> "xor"
      [] OTHER -> op

\* __add__ and __sub__ written like __rmod__: they hand back what
\* compute_bitwise_operation returns
WrappingMethods_additive_raw ==
    {"mul", "truediv", "floordiv", "mod", "pow", "rtruediv", "rsub", "rfloordiv"}

\* the methods that end in self.__create_new_instance(value, unit, name, dtype)
WrappingMethods ==
    {"mul", "truediv", "floordiv", "mod", "add", "sub", "pow",
     "rtruediv", "rsub", "rfloordiv"}

\* the methods that return compute_bitwise_operation(...) as it is
RawMethods ==
    {"lshift", "rshift", "and", "or", "xor", "rlshift", "rrshift",
     "rmod", "rpow", "rand", "ror", "rxor"}

\* the methods that pass right_handed=True
RightHanded ==
    {"rtruediv", "rsub", "rfloordiv", "rlshift", "rrshift", "rmod", "rpow",
     "rand", "ror", "rxor"}

\* the methods with "if unit is None: unit = Zero"
NormalisingMethods == WrappingMethods \ {"rfloordiv"}

\* every binary method wrapping its result, the bitwise ones too
Wraps_all(m) == TRUE

Wraps(m) == m \in WrappingMethods

\* __UFUNC_NAME__[co_name]: the primitive a method stands for
UfuncName(m) ==
    CASE m \in {"rtruediv"} -> "truediv"
      [] m = "rsub" -> "sub"
      [] m = "rfloordiv" -> "floordiv"
      [] m = "rlshift" -> "lshift"
      [] m = "rrshift" -> "rshift"
      [] m = "rmod" -> "mod"
      [] m = "rpow" -> "pow"
      [] m = "rand" -> "and"
      [] m = "ror" -> "or"
      [] m = "rxor" -> "xor"
      [] OTHER -> m

ArithmeticSymbols == {"add", "sub", "mul", "truediv", "floordiv", "mod", "pow"}
BitwiseSymbols == {"lshift", "rshift", "and", "or", "xor"}

\* ------------------------------------------------------------------ primitives
\* two's complement and / or / xor; Width bits are enough for |x| <= MaxAbs
Width == 16

RECURSIVE BitsOp(_, _, _, _)
BitsOp(f, a, b, k) ==
    IF k = 0 THEN 0
    ELSE LET x == a % 2
             y == b % 2
             z == CASE f = "and" -> x * y
                    [] f = "or" -> IF x + y > 0 THEN 1 ELSE 0
                    [] OTHER -> (x + y) % 2
         IN  z + 2 * BitsOp(f, a \div 2, b \div 2, k - 1)

RECURSIVE Pow2(_)
Pow2(k) == IF k = 0 THEN 1 ELSE 2 * Pow2(k - 1)

Unsigned(x) == IF x < 0 THEN x + Pow2(Width) ELSE x
Signed(x) == IF x >= Pow2(Width - 1) THEN x - Pow2(Width) ELSE x

\* the operand pairs the model computes: no division by zero (numpy, with
\* its warnings off, gives inf or nan there), small non-negative integer
\* exponents and shift counts
PrimDefined(f, a, b) ==
    CASE f \in {"truediv", "floordiv", "mod"} -> b[1] # 0
      [] f = "pow" -> IsIntegral(b) /\ b[1] \in 0..MaxExp /\ Abs(a[1]) <= 30 /\ a[2] <= 30
      [] f \in {"lshift", "rshift"} -> b[1] \in 0..MaxExp
      [] OTHER -> TRUE

\* the primitive numeric operation on two elements
PrimOf(f, a, b) ==
    CASE f = "add" -> RAdd(a, b)
      [] f = "sub" -> RSub(a, b)
      [] f = "mul" -> RMul(a, b)
      [] f = "truediv" -> RDiv(a, b)
      [] f = "floordiv" -> RFloorDiv(a, b)
      [] f = "mod" -> RMod(a, b)
      [] f = "pow" -> RPowNat(a, b[1])
      [] f = "lshift" -> I(a[1] * Pow2(b[1]))
      [] f = "rshift" -> I(a[1] \div Pow2(b[1]))
      [] OTHER -> I(Signed(BitsOp(f, Unsigned(a[1]), Unsigned(b[1]), Width)))

Prim(f, a, b) == IF PrimDefined(f, a, b) THEN PrimOf(f, a, b) ELSE Undefined

\* numpy broadcasting of two shapes of at most two axes
Pad2(shape) ==
    CASE Len(shape) = 0 -> <<1, 1>>
      [] Len(shape) = 1 -> <<1, shape[1]>>
      [] OTHER -> shape

Broadcastable(s1, s2) ==
    \A k \in 1..2 : Pad2(s1)[k] = Pad2(s2)[k] \/ Pad2(s1)[k] = 1 \/ Pad2(s2)[k] = 1

Max(a, b) == IF a >= b THEN a ELSE b

BroadcastShape(s1, s2) ==
    LET full == [k \in 1..2 |-> Max(Pad2(s1)[k], Pad2(s2)[k])]
        nd == Max(Len(s1), Len(s2))
    IN  SubSeq(full, 3 - nd, 2)

\* the element of an array of shape s that lands on flat position i (from 1)
\* of the broadcast result of shape full
Pick(data, s, full, i) ==
    LET cols == full[2]
        r == (i - 1) \div cols
        c == (i - 1) % cols
        rr == IF Pad2(s)[1] = 1 THEN 0 ELSE r
        cc == IF Pad2(s)[2] = 1 THEN 0 ELSE c
    IN  data[rr * Pad2(s)[2] + cc + 1]

\* f applied elementwise to two arrays, as a fresh array of dtype dt
Elementwise(f, x, y, dt) ==
    LET full == [k \in 1..2 |-> Max(Pad2(x.shape)[k], Pad2(y.shape)[k])]
        n == full[1] * full[2]
    IN  Fresh(dt, BroadcastShape(x.shape, y.shape),
              [i \in 1..n |-> Cast(Prim(f, Pick(x.data, x.shape, full, i),
                                        Pick(y.data, y.shape, full, i)), dt)])

\* ------------------------------------------------------------------ operands
\* an operand as the operation routines see it
Operand(o) ==
    [quantity |-> TRUE, arr |-> Deref(bufs, o.value), unit |-> o.unit,
     dimension |-> o.dimension, name |-> o.name, constant |-> o.constant]

\* Quantity.__check_other: anything without the quantity attribute becomes
\* np.atleast_1d(np.asarray(other))
check_other(r) ==
    [quantity |-> FALSE, arr |-> atleast_1d(Fresh("int64", r.shape, r.data)),
     unit |-> None, dimension |-> "None", name |-> "", constant |-> FALSE]

RawInputs == { [shape |-> <<>>, data |-> <<I(2)>>] }

\* the right operand of a call: an existing Quantity (id) or a plain value
Others ==
    {[id |-> k, shape |-> <<>>, data |-> <<>>] : k \in Ids}
        \cup {[id |-> 0, shape |-> r.shape, data |-> r.data] : r \in RawInputs}

OtherOperand(x) == IF x.id = 0 THEN check_other(x) ELSE Operand(objs[x.id])

\* ------------------------------------------------------------------ operation routines
Dimensionless(d) == d \in {"Zero", "None"}
SameDimension(d1, d2) == d1 = d2 \/ (Dimensionless(d1) /\ Dimensionless(d2))
Unitless(x) == x.unit.kind \in {"None", "Zero"}

\* the exponent a power raises the unit to: the single element of the right
\* operand
Exponent(rhs) == rhs.arr.data[1][1]

\* the rule for the unit of lhs f rhs
CombinedUnit(f, lhs, rhs) ==
    CASE f = "mul" ->
           IF Unitless(lhs) /\ Unitless(rhs) THEN None
           ELSE UnitExpr([b \in BaseUnits |-> lhs.unit.exp[b] + rhs.unit.exp[b]])
      [] f \in {"truediv", "floordiv"} ->
           IF Unitless(lhs) /\ Unitless(rhs) THEN None
           ELSE UnitExpr([b \in BaseUnits |-> lhs.unit.exp[b] - rhs.unit.exp[b]])
      [] f = "pow" ->
           IF Unitless(lhs) THEN None
           ELSE UnitExpr([b \in BaseUnits |-> lhs.unit.exp[b] * Exponent(rhs)])
      [] OTHER -> lhs.unit

UnitInRange(u) == \A b \in BaseUnits : Abs(u.exp[b]) <= MaxExp

ResultDtype(f, lhs, rhs) ==
    IF f = "truediv" THEN "float64" ELSE Promote(lhs.arr.dtype, rhs.arr.dtype)

NoArray == Fresh(NoDtype, <<>>, <<>>)

Failed(err) ==
    [err |-> err, value |-> NoArray, unit |-> None, dtype |-> NoDtype, name |-> ""]

\* compute_operation(self, other, operator, right_handed):
\* (value, unit, dtype, name), or the exception it raises
compute_operation(self, other, f, right_handed) ==
    LET lhs == IF right_handed THEN other ELSE self
        rhs == IF right_handed THEN self ELSE other
        dt == ResultDtype(f, lhs, rhs)
    IN  IF f \in {"add", "sub"} /\ ~SameDimension(lhs.dimension, rhs.dimension)
        THEN Failed("DimensionError")
        ELSE IF ~Broadcastable(lhs.arr.shape, rhs.arr.shape)
        THEN Failed("ValueError")
        ELSE [err |-> "",
              value |-> Elementwise(f, lhs.arr, rhs.arr, dt),
              unit |-> CombinedUnit(f, lhs, rhs),
              dtype |-> dt,
              name |-> IF lhs.quantity /\ ~lhs.constant THEN lhs.name ELSE ""]

\* compute_bitwise_operation(self, other, operator, right_handed): the plain
\* result of the primitive, or the exception it raises
compute_bitwise_operation(self, other, f, right_handed) ==
    LET lhs == IF right_handed THEN other ELSE self
        rhs == IF right_handed THEN self ELSE other
        dt == ResultDtype(f, lhs, rhs)
    IN  IF f \in BitwiseSymbols /\ ~(IsIntDtype(lhs.arr.dtype) /\ IsIntDtype(rhs.arr.dtype))
        THEN Failed("TypeError")
        ELSE IF ~Broadcastable(lhs.arr.shape, rhs.arr.shape)
        THEN Failed("ValueError")
        ELSE [Failed("") EXCEPT !.value = Elementwise(f, lhs.arr, rhs.arr, dt),
                                !.dtype = dt]

\* the results the model follows (see PrimDefined): numbers and unit
\* exponents inside the bounds, a power with a single exponent
Computable(f, other, r) ==
    r.err = "" =>
        /\ \A i \in 1..Len(r.value.data) : InRange(r.value.data[i])
        /\ f = "pow" => Size(other.arr.shape) = 1
        /\ UnitInRange(r.unit)

\* ------------------------------------------------------------------ binary operators
\* __mul__, __truediv__, __floordiv__, __mod__, __add__, __sub__, __pow__,
\* __rtruediv__, __rsub__, __rfloordiv__ and their aliases
Arithmetic(op, q, x) ==
    LET m == Alias(op)
        self == objs[q]
        other == OtherOperand(x)
        f == UfuncName(m)
        rh == m \in RightHanded
        co == compute_operation(Operand(self), other, f, rh)
    IN  /\ Open
        /\ Wraps(m)
        /\ rh => x.id = 0
        /\ Computable(f, other, co)
        /\ IF co.err # ""
           THEN /\ last' = Raised(op, q, x.id, co.err)
                /\ UNCHANGED <<bufs, objs, origin, iters, writes, cap>>
           ELSE LET unit == IF co.unit = None /\ m \in NormalisingMethods
                            THEN Zero ELSE co.unit
                    new == create_new_instance(bufs, self, co.value, unit, co.name,
                                               co.dtype)
                IN  /\ Room
                    /\ bufs' = new.bufs
                    /\ objs' = Append(objs, new.obj)
                    /\ origin' = Append(origin, Origin(q, "binary"))
                    /\ last' = Returned(op, q, x.id, Len(objs) + 1)
                    /\ UNCHANGED <<iters, writes, cap>>

\* __lshift__ .. __xor__, __rlshift__, __rrshift__, __rmod__, __rpow__,
\* __rand__, __ror__, __rxor__ and their aliases
Bitwise(op, q, x) ==
    LET m == Alias(op)
        self == objs[q]
        other == OtherOperand(x)
        f == UfuncName(m)
        rh == m \in RightHanded
        cb == compute_bitwise_operation(Operand(self), other, f, rh)
    IN  /\ Open
        /\ ~Wraps(m)
        /\ rh => x.id = 0
        /\ Computable(f, other, cb)
        /\ last' = IF cb.err # "" THEN Raised(op, q, x.id, cb.err)
                   ELSE Outcome(op, q, x.id, "raw", 0, "", cb.value.data)
        /\ UNCHANGED <<bufs, objs, origin, iters, writes, cap>>

BinaryOps ==
    WrappingMethods \cup RawMethods
        \cup {"rmul", "radd", "div", "rdiv", "iadd", "isub", "imul", "ifloordiv",
              "idiv", "itruediv", "imod", "ipow", "ilshift", "irshift", "iand",
              "ior", "ixor"}

\* ------------------------------------------------------------------ unary operators
UnaryOps == {"pos", "neg", "abs", "invert"}

\* __OPERATORS__.get(name): the elementwise primitive
UnaryPrim(f, a) ==
    CASE f = "pos" -> a
      [] f = "neg" -> RNeg(a)
      [] f = "abs" -> RAbs(a)
      [] OTHER -> I(-a[1] - 1)

\* __pos__, __neg__, __abs__, __invert__
Unary(f, q) ==
    LET self == objs[q]
        v == Deref(bufs, self.value)
    IN  /\ Open
        /\ IF f = "invert" /\ ~IsIntDtype(v.dtype)
           THEN /\ last' = Raised(f, q, 0, "TypeError")
                /\ UNCHANGED <<bufs, objs, origin, iters, writes, cap>>
           ELSE LET value == Fresh(v.dtype, v.shape,
                                   [i \in 1..Len(v.data) |-> UnaryPrim(f, v.data[i])])
                    new == create_new_instance(bufs, self, value, self.unit,
                                               self.name, NoDtype)
                IN  /\ Room
                    /\ bufs' = new.bufs
                    /\ objs' = Append(objs, new.obj)
                    /\ origin' = Append(origin, Origin(q, "unary"))
                    /\ last' = Returned(f, q, 0, Len(objs) + 1)
                    /\ UNCHANGED <<iters, writes, cap>>

\* ------------------------------------------------------------------ setters
NameInputs == {"c"}
ConstantInputs == {"True", "False", "1"}

\* Quantity.set_name
SetName(q, name) ==
    /\ Open
    /\ writes < MaxWrites
    /\ writes' = writes + 1
    /\ objs' = [objs EXCEPT ![q] = set_name(@, name)]
    /\ last' = Outcome("set_name", q, 0, "None", 0, "", <<>>)
    /\ UNCHANGED <<bufs, origin, iters, cap>>

\* Quantity.set_constant
SetConstant(q, c) ==
    /\ Open
    /\ writes < MaxWrites
    /\ IF c \in {"True", "False"}
       THEN /\ objs' = [objs EXCEPT ![q].constant = (c = "True")]
            /\ writes' = writes + 1
            /\ last' = Outcome("set_constant", q, 0, "None", 0, "", <<>>)
            /\ UNCHANGED <<bufs, origin, iters, cap>>
       ELSE /\ last' = Raised("set_constant", q, 0, "ValueError")
            /\ UNCHANGED <<bufs, objs, origin, iters, writes, cap>>

WriteInputs == {I(9)}

\* q.flat[k - 1] = v, the element assignment Quantity inherits from
\* numpy.ndarray: it writes the array's own storage
SetItem(q, k, v) ==
    LET base == objs[q].base
    IN  /\ Open
        /\ writes < MaxWrites
        /\ writes' = writes + 1
        /\ k \in 1..Size(base.shape)
        /\ bufs' = [bufs EXCEPT ![base.buf].data[base.off + k] = Cast(v, bufs[base.buf].dtype)]
        /\ last' = Outcome("setitem", q, 0, "None", 0, "", <<>>)
        /\ UNCHANGED <<objs, origin, iters, cap>>

\* ------------------------------------------------------------------ conversion
RPow(a, e) == IF e >= 0 THEN RPowNat(a, e) ELSE RDiv(I(1), RPowNat(a, -e))

RECURSIVE RProduct(_, _)
RProduct(F, S) ==
    IF S = {} THEN I(1)
    ELSE LET b == CHOOSE x \in S : TRUE IN RMul(F[b], RProduct(F, S \ {b}))

\* the number of base units one unit of the expression u is
UnitScale(u) ==
    RProduct([b \in BaseUnits |-> RPow(scale_factor(b), u.exp[b])], BaseUnits)

\* the power of each dimension in a unit expression
DimensionExp(u) ==
    [d \in {"length", "time"} |->
        IF d = "time" THEN u.exp["second"] ELSE u.exp["meter"] + u.exp["centimeter"]]

\* convert_to_unit(expr, unit): the numbers of value * from in the unit to,
\* or the exception it raises
convert_to_unit(data, from, to) ==
    IF from.kind = "unit" /\ to.kind = "unit" /\ DimensionExp(from) = DimensionExp(to)
    THEN [err |-> "",
          data |-> [i \in 1..Len(data) |->
                       RDiv(RMul(data[i], UnitScale(from)), UnitScale(to))]]
    ELSE [err |-> "DimensionError", data |-> <<>>]

\* the body of Quantity.convert_to up to "if inplace": the converted array,
\* or the exception raised on the way (unit is resolved already)
converted(bs, self, unit) ==
    LET v == Deref(bs, self.value)
    IN  IF HasDimension(unit) /\ DimensionName(unit) = self.dimension
        THEN \* self.value.astype(self._dtype) * scale_factor / scale_factor
             LET a == CastSeq(v.data, self.dtype)
                 from == scale_factor(UnitName(self.unit))
                 to == scale_factor(UnitName(unit))
             IN  [err |-> "",
                  value |-> Fresh("float64", v.shape,
                                  [i \in 1..Len(a) |-> RDiv(RMul(a[i], from), to)])]
        ELSE IF self.unit = None
        THEN \* self.expr is self.value * None
             [err |-> "TypeError", value |-> NoArray]
        ELSE LET c == convert_to_unit(v.data, self.unit, unit)
             IN  IF c.err # "" THEN [err |-> c.err, value |-> NoArray]
                 ELSE IF Head(v.shape) = 1
                 THEN \* zeros_like(dtype=self._dtype), value[0] = ..., flatten()
                      [err |-> "",
                       value |-> Fresh(self.dtype, <<Size(v.shape)>>,
                                       CastSeq(c.data, self.dtype))]
                 ELSE [err |-> "", value |-> Fresh("float64", v.shape, c.data)]

UnitInputs ==
    { UnitStr("meter"), UnitStr("centimeter"), UnitStr("second"), UnitStr("parsec"),
      UnitExpr([b \in BaseUnits |-> IF b = "centimeter" THEN 2 ELSE 0]) }

\* Quantity.convert_to
ConvertTo(q, target, inplace) ==
    LET self == objs[q]
        op == IF inplace THEN "convert_to_inplace" ELSE "convert_to"
    IN  /\ Open
        /\ inplace => writes < MaxWrites
        /\ IF ~Resolvable(target)
           THEN /\ last' = Raised(op, q, 0, "UnitError")
                /\ UNCHANGED <<bufs, objs, origin, iters, writes, cap>>
           ELSE LET unit == get_unit(target)
                    c == converted(bufs, self, unit)
                IN  /\ c.err = "" => \A i \in 1..Len(c.value.data) : InRange(c.value.data[i])
                    /\ IF c.err # ""
                       THEN /\ last' = Raised(op, q, 0, c.err)
                            /\ UNCHANGED <<bufs, objs, origin, iters, writes, cap>>
                       ELSE IF inplace
                       THEN LET st == Store(bufs, c.value)
                            IN  /\ bufs' = st.bufs
                                /\ objs' = [objs EXCEPT ![q] =
                                              set_attributes(self, unit, st.ref, self.dtype,
                                                             self.copy, FALSE, self.ndmin)]
                                /\ writes' = writes + 1
                                /\ last' = Outcome(op, q, 0, "None", 0, "", <<>>)
                                /\ UNCHANGED <<origin, iters, cap>>
                       ELSE LET new == create_new_instance(bufs, self, c.value, unit,
                                                           self.name, NoDtype)
                            IN  /\ Room
                                /\ bufs' = new.bufs
                                /\ objs' = Append(objs, new.obj)
                                /\ origin' = Append(origin, Origin(q, "convert_to"))
                                /\ last' = Returned(op, q, 0, Len(objs) + 1)
                                /\ UNCHANGED <<iters, writes, cap>>

\* ------------------------------------------------------------------ iteration
\* Quantity.__iter__: the generator iter_over_value(self.unit, self.name),
\* not started
Iter(q) ==
    /\ Open
    /\ Len(iters) < cap.iters
    /\ iters' = Append(iters, [self |-> q, unit |-> objs[q].unit, name |-> objs[q].name,
                               state |-> "new", arr |-> NoRef, pos |-> 0, out |-> <<>>])
    /\ last' = Outcome("iter", q, 0, "iterator", Len(iters) + 1, "", <<>>)
    /\ UNCHANGED <<bufs, objs, origin, writes, cap>>

\* next() on the generator: "for item in self.value" reads self.value when
\* the generator starts and walks that array from then on
IterNext(k) ==
    LET it == iters[k]
        self == objs[it.self]
        arr == IF it.state = "new" THEN self.value ELSE it.arr
    IN  /\ Open
        /\ it.state # "done"
        /\ IF it.pos < Head(arr.shape)
           THEN LET item == ndarray_getitem(bufs, arr, Index(it.pos))
                    new == create_new_instance(bufs, self, item, it.unit, it.name, NoDtype)
                IN  /\ Room
                    /\ bufs' = new.bufs
                    /\ objs' = Append(objs, new.obj)
                    /\ origin' = Append(origin, Origin(it.self, "next"))
                    /\ iters' = [iters EXCEPT ![k] =
                                   [@ EXCEPT !.state = "running", !.arr = arr,
                                             !.pos = @ + 1,
                                             !.out = Append(@, Len(objs) + 1)]]
                    /\ last' = Returned("next", it.self, 0, Len(objs) + 1)
                    /\ UNCHANGED <<writes, cap>>
           ELSE /\ iters' = [iters EXCEPT ![k] = [@ EXCEPT !.state = "done", !.arr = arr]]
                /\ last' = Outcome("next", it.self, 0, "StopIteration", 0, "", <<>>)
                /\ UNCHANGED <<bufs, objs, origin, writes, cap>>

\* ------------------------------------------------------------------ specifications
\* Construction, indexing, the operators, conversion and the setters on a
\* heap of up to MaxObjs Quantities; generators are followed under SpecIter.
Init ==
    /\ bufs = <<>>
    /\ objs = <<>>
    /\ origin = <<>>
    /\ iters = <<>>
    /\ writes = 0
    /\ last = Outcome("init", 0, 0, "none", 0, "", <<>>)
    /\ cap = [objs |-> MaxObjs, iters |-> 0]

Next ==
    \/ Open /\ \E arg \in NewArgs : New(arg)
    \/ Open /\ \E q \in Ids : \E item \in Items(Head(objs[q].value.shape)) : GetItem(q, item)
    \/ Open /\ \E q \in Ids : \E x \in Others : \E op \in BinaryOps : Arithmetic(op, q, x)
    \/ Open /\ \E q \in Ids : \E x \in Others : \E op \in BinaryOps : Bitwise(op, q, x)
    \/ Open /\ \E f \in UnaryOps : \E q \in Ids : Unary(f, q)
    \/ Open /\ \E q \in Ids : \E target \in UnitInputs : \E inplace \in BOOLEAN :
                   ConvertTo(q, target, inplace)
    \/ Open /\ \E q \in Ids : \E name \in NameInputs : SetName(q, name)
    \/ Open /\ \E q \in Ids : \E c \in ConstantInputs : SetConstant(q, c)
    \/ Open /\ \E q \in Ids : \E k \in 1..Size(objs[q].base.shape) :
                   \E v \in WriteInputs : SetItem(q, k, v)

Spec == Init /\ [][Next]_vars

\* Iteration followed to its end, twice: one Quantity, its generators and
\* the elements they yield, with the calls that change the Quantity.
InitIter ==
    \E arg \in NewArgs :
        /\ arg.unit = None \/ Resolvable(arg.unit)
        /\ bufs = Construct(<<>>, arg).bufs
        /\ objs = <<Construct(<<>>, arg).obj>>
        /\ origin = <<Origin(0, "new")>>
        /\ iters = <<>>
        /\ writes = 0
        /\ last = Returned("new", 0, 0, 1)
        /\ cap = [objs |-> IterObjs, iters |-> IterIters]

NextIter ==
    \/ Iter(1)
    \/ \E k \in 1..Len(iters) : IterNext(k)
    \/ \E target \in UnitInputs : ConvertTo(1, target, TRUE)
    \/ \E name \in NameInputs : SetName(1, name)
    \/ \E k \in 1..Size(objs[1].base.shape) : \E v \in WriteInputs : SetItem(1, k, v)

SpecIter == InitIter /\ [][NextIter]_vars

\* Conversions of one Quantity and of what they return: a -> a.convert_to(u)
\* -> a.convert_to(u).convert_to(v), none of them in place.
InitConvert ==
    \E arg \in NewArgs :
        /\ arg.unit = None \/ Resolvable(arg.unit)
        /\ bufs = Construct(<<>>, arg).bufs
        /\ objs = <<Construct(<<>>, arg).obj>>
        /\ origin = <<Origin(0, "new")>>
        /\ iters = <<>>
        /\ writes = 0
        /\ last = Returned("new", 0, 0, 1)
        /\ cap = [objs |-> TripObjs, iters |-> 0]

NextConvert ==
    \E q \in Ids : \E target \in UnitInputs : ConvertTo(q, target, FALSE)

SpecConvert == InitConvert /\ [][NextConvert]_vars

\* ------------------------------------------------------------------ properties
\* the tag the code derives from a unit that has a dimension
DerivedDimension(u) == DimensionName(u)

\* the value Quantity(value) without a unit assigns to unit and dimension
ConstructionSentinel == "Zero"

\* C1: in every Quantity the dimension field is the tag derived from the
\* current unit, and it is the sentinel that a construction without a unit
\* assigns whenever the unit has no dimension.
C1_DimensionAgreesWithUnit ==
    \A q \in Ids :
        objs[q].dimension = IF HasDimension(objs[q].unit)
                            THEN DerivedDimension(objs[q].unit)
                            ELSE ConstructionSentinel

\* the calls of the arithmetic operators + - * / // % **, direct and reflected
ArithmeticCalls ==
    {"add", "sub", "mul", "truediv", "floordiv", "mod", "pow",
     "radd", "rsub", "rmul", "rtruediv", "rfloordiv", "rmod", "rpow",
     "div", "rdiv"}

\* C2: every arithmetic operator, direct or reflected, that returns gives
\* back a new Quantity (never a plain array) holding the resulting values.
C2_ArithmeticReturnsQuantity ==
    (last.op \in ArithmeticCalls /\ last.kind # "raise") =>
        /\ last.kind = "Quantity"
        /\ last.res = Len(objs)
        /\ origin[last.res] = Origin(last.self, "binary")

\* the calls that add or subtract
AdditiveCalls == {"add", "sub", "radd", "iadd", "isub"}

C4_InPlaceConversionAtomic ==
    [][\A q \in Ids : \A target \in UnitInputs :
          (last'.op = "convert_to_inplace" /\ last'.self = q /\ ConvertTo(q, target, TRUE))
          => \/ /\ last'.kind = "raise"
                /\ objs' = objs
                /\ bufs' = bufs
             \/ /\ last'.kind = "None"
                /\ LET c == converted(bufs, objs[q], get_unit(target))
                       new == objs'[q]
                   IN  /\ new.unit = get_unit(target)
                       /\ Deref(bufs', new.value).data = c.value.data
                       /\ new.dtype = c.value.dtype
                       /\ IF HasDimension(new.unit)
                          THEN new.dimension = DerivedDimension(new.unit)
                          ELSE Dimensionless(new.dimension)]_vars

\* C5: the constant flag of an existing Quantity is the same after any call
\* but set_constant, and a derived Quantity carries its parent's flag.
C5_ConstantPreserved ==
    [][last'.op # "set_constant"
       => /\ \A q \in Ids : objs'[q].constant = objs[q].constant
          /\ (last'.kind = "Quantity" /\ last'.self # 0)
                => objs'[last'.res].constant = objs[last'.self].constant]_vars

AugmentedCalls ==
    {"iadd", "isub", "imul", "itruediv", "idiv", "ifloordiv", "imod", "ipow"}

\* the calls that derive a Quantity from the receiver
DerivingCalls ==
    ArithmeticCalls \cup AugmentedCalls \cup UnaryOps \cup {"getitem", "next", "convert_to"}

\* C6: every arithmetic operator (augmented forms included), indexing,
\* iteration, unary operator and convert_to without in-place builds a
\* brand-new Quantity and leaves every existing Quantity as it was.
C6_OperationsBuildNew ==
    [][last'.op \in DerivingCalls
       => /\ last'.kind \notin {"raise", "StopIteration"}
                => /\ last'.kind = "Quantity"
                   /\ last'.res = Len(objs) + 1
                   /\ Len(objs') = Len(objs) + 1
          /\ \A q \in Ids :
                /\ objs'[q] = objs[q]
                /\ Deref(bufs', objs[q].value).data = Deref(bufs, objs[q].value).data]_vars

\* the calls whose result C7 is about: indexing, iteration, unary operators
ViewCalls == {"getitem", "next", "unary"}

Related(p, w) ==
    \/ origin[w].parent = p /\ origin[w].via \in ViewCalls
    \/ origin[p].parent = w /\ origin[p].via \in ViewCalls

\* C7: with copy true, writing an element of a Quantity got by indexing,
\* iteration or a unary operator never changes the parent's values, and
\* writing an element of the parent never changes the derived one's.
C7_NoSharedStorage ==
    [][last'.op = "setitem"
       => \A p \in Ids :
             (/\ p # last'.self
              /\ Related(p, last'.self)
              /\ objs[p].copy
              /\ objs[last'.self].copy)
             => Deref(bufs', objs[p].value).data = Deref(bufs, objs[p].value).data]_vars

\* C8: the values of every Quantity have at least one axis.
C8_ValuesAtLeastOneDimensional ==
    \A q \in Ids :
        /\ Len(objs[q].value.shape) >= 1
        /\ Len(objs[q].base.shape) >= 1

\* an element taken out of a one-dimensional Quantity by an integer index:
\* a scalar, wrapped as a Quantity of one element
C8_Witness ==
    /\ last.op = "getitem"
    /\ last.kind = "Quantity"
    /\ Len(objs[last.self].value.shape) = 1
    /\ Head(objs[last.self].value.shape) = 2
    /\ objs[last.res].value.shape = <<1>>

\* the calls of the bitwise operators << >> & | ^, direct and reflected
BitwiseCalls ==
    {"lshift", "rshift", "and", "or", "xor", "rlshift", "rrshift", "rand", "ror", "rxor"}

\* C10: a bitwise operator, direct or reflected, gives back the plain
\* result of the primitive (or raises), never a Quantity.
C10_BitwiseReturnsRaw ==
    last.op \in BitwiseCalls =>
        /\ last.kind \in {"raw", "raise"}
        /\ last.res = 0
        /\ last.kind = "raw" => Len(last.raw) >= 1

\* [3, 250] & 2 has given the plain array [2, 2]
C10_Witness ==
    /\ last.op = "and"
    /\ last.kind = "raw"
    /\ last.raw = <<I(2), I(2)>>

\* item i (from 1) along the first axis of the values of o
Row(o, i) ==
    LET n == RowSize(o.value.shape)
    IN  SubSeq(Values(o), (i - 1) * n + 1, i * n)

\* the unit __create_new_instance gives a Quantity it builds from unit u
YieldedUnit(u) == IF IsOneType(u) THEN None ELSE u

Unmodified == writes = 0

\* the statement of C9 as it stands: as many single-element Quantities as
\* the parent has elements, each with the parent's unit and name
C9_YieldsSingleElements ==
    \A k \in 1..Len(iters) :
        LET it == iters[k]
            p == objs[it.self]
        IN  (Unmodified /\ it.state = "done") =>
                /\ Len(it.out) = Size(p.value.shape)
                /\ \A i \in 1..Len(it.out) :
                      LET e == objs[it.out[i]]
                      IN  /\ Size(e.value.shape) = 1
                          /\ Values(e) = <<Values(p)[i]>>
                          /\ e.unit = p.unit
                          /\ e.name = p.name

\* C9: iterating a Quantity whose first axis has length N yields exactly N
\* Quantities in index order, the i-th holding item i of the first axis (one
\* element when the parent is one-dimensional), each with the parent's name
\* and the parent's unit (no unit when the parent's unit is the One marker);
\* then the iteration ends, and iterating the unmodified Quantity a second
\* time yields the same sequence.
C9_IterationYieldsItems ==
    Unmodified =>
        /\ \A k \in 1..Len(iters) :
              LET it == iters[k]
                  p == objs[it.self]
                  n == Head(p.value.shape)
              IN  /\ Len(it.out) <= n
                  /\ it.state = "done" => Len(it.out) = n
                  /\ \A i \in 1..Len(it.out) :
                        LET e == objs[it.out[i]]
                        IN  /\ Values(e) = Row(p, i)
                            /\ e.value.shape = atleast_1d([shape |-> Tail(p.value.shape)]).shape
                            /\ e.unit = YieldedUnit(p.unit)
                            /\ e.name = p.name
        /\ \A k1, k2 \in 1..Len(iters) :
              (iters[k1].self = iters[k2].self
                    /\ iters[k1].state = "done" /\ iters[k2].state = "done")
              => /\ Len(iters[k1].out) = Len(iters[k2].out)
                 /\ \A i \in 1..Len(iters[k1].out) :
                       LET e1 == objs[iters[k1].out[i]]
                           e2 == objs[iters[k2].out[i]]
                       IN  /\ Values(e1) = Values(e2)
                           /\ e1.unit = e2.unit
                           /\ e1.name = e2.name

\* a two-element Quantity iterated to the end twice, untouched in between
C9_Witness ==
    /\ Unmodified
    /\ Len(iters) = 2
    /\ \A k \in 1..2 : iters[k].state = "done" /\ Len(iters[k].out) = 2
    /\ Len(objs[1].value.shape) = 1
    /\ iters[1].out # iters[2].out

\* the primitive of unary operator f applied to each of the values of o
UnaryValues(f, o) == [i \in 1..Len(Values(o)) |-> UnaryPrim(f, Values(o)[i])]

\* the statement of C11 as it stands: the unit and the name of the result
\* are exactly those of x, the values those the primitive gives
C11_UnaryKeepsExactUnit ==
    [][(last'.op \in UnaryOps /\ last'.kind # "raise")
       => /\ last'.kind = "Quantity"
          /\ LET x == objs[last'.self]
                 r == objs'[last'.res]
             IN  /\ r.unit = x.unit
                 /\ r.name = x.name
                 /\ Deref(bufs', r.value).data = UnaryValues(last'.op, x)]_vars

\* C11: a unary operator +x, -x, abs(x) or ~x that returns gives a new
\* Quantity whose name is exactly that of x and whose unit is that of x (no
\* unit when the unit of x is the One marker), for a unit-less x and an x
\* with the empty default name too; its values are those the primitive gives
\* elementwise, stored in the dtype x records, and x is left as it was.
C11_UnaryKeepsNameAndUnit ==
    [][(last'.op \in UnaryOps /\ last'.kind # "raise")
       => /\ last'.kind = "Quantity"
          /\ last'.res = Len(objs) + 1
          /\ objs'[last'.self] = objs[last'.self]
          /\ LET x == objs[last'.self]
                 r == objs'[last'.res]
             IN  /\ r.unit = YieldedUnit(x.unit)
                 /\ r.name = x.name
                 /\ Deref(bufs', r.value).data
                        = CastSeq(UnaryValues(last'.op, x), x.dtype)]_vars

\* -x of the unit-less, unnamed Quantity(7) has been built
C11_Witness ==
    /\ last.op = "neg"
    /\ last.kind = "Quantity"
    /\ objs[last.self].unit = Zero
    /\ objs[last.self].name = ""
    /\ objs[last.res].unit = Zero
    /\ objs[last.res].name = ""
    /\ Values(objs[last.res]) = <<I(-7)>>

\* values * scale_factor(source unit) / scale_factor(target unit)
Rescaled(data, from, to) ==
    [i \in 1..Len(data) |->
        RDiv(RMul(data[i], scale_factor(UnitName(from))), scale_factor(UnitName(to)))]

\* b is a.convert_to(u) for a unit u of the dimension of a
SameDimensionConversion(a, b) ==
    /\ origin[b] = Origin(a, "convert_to")
    /\ HasDimension(objs[a].unit)
    /\ HasDimension(objs[b].unit)
    /\ DimensionName(objs[b].unit) = DimensionName(objs[a].unit)

\* C12: a.convert_to(u) for a unit u of the dimension of a holds the values
\* of a times scale_factor(a.unit) / scale_factor(u), and converting that
\* back to a.unit gives a Quantity with the unit and the values of a.
C12_ConversionRoundTrip ==
    [][\A b \in Ids : \A target \in UnitInputs :
          (/\ last'.op = "convert_to"
           /\ last'.kind = "Quantity"
           /\ last'.self = b
           /\ ConvertTo(b, target, FALSE)
           /\ origin[b].parent # 0
           /\ SameDimensionConversion(origin[b].parent, b)
           /\ get_unit(target) = objs[origin[b].parent].unit)
          => LET a == objs[origin[b].parent]
                 c == objs'[last'.res]
             IN  /\ Values(objs[b]) = Rescaled(Values(a), a.unit, objs[b].unit)
                 /\ c.unit = a.unit
                 /\ Deref(bufs', c.value).data = Values(a)]_vars

\* what the numbers data in the unit u amount to in base units
Amount(data, u) == [j \in 1..Len(data) |-> RMul(data[j], UnitScale(u))]

\* the generator k was obtained before its Quantity was converted in place
\* to another unit
ConvertedSince(k) == iters[k].unit # objs[iters[k].self].unit

\* C13: an element yielded by an iterator whose Quantity was converted in
\* place to another unit after the iterator was obtained pairs its values
\* with the unit they are expressed in: it amounts to the item of the
\* Quantity it was taken from.
C13_NoStaleMetadata ==
    [][\A k \in 1..Len(iters) :
          (/\ last'.op = "next"
           /\ last'.kind = "Quantity"
           /\ iters'[k] # iters[k]
           /\ ConvertedSince(k))
          => LET p == objs[iters[k].self]
                 e == objs'[last'.res]
                 i == Len(iters'[k].out)
             IN  /\ DimensionExp(e.unit) = DimensionExp(p.unit)
                 /\ Amount(Deref(bufs', e.value).data, e.unit)
                        = Amount(Row(p, i), p.unit)]_vars

\* C14: in every Quantity the value field holds the elements of the
\* Quantity's own array, in the same shape.
C14_ValueIsArrayContents ==
    \A q \in Ids :
        /\ objs[q].value.shape = objs[q].base.shape
        /\ Values(objs[q]) = Contents(objs[q])

====
